---- MODULE Spec2Model ----
(***************************************************************************)
(* Model of torchio's patch Queue (src/torchio/queue.py).                  *)
(*                                                                         *)
(* The queue buffers patches (sub-items) sampled from subjects (source     *)
(* items).  __getitem__ (pop_next) refills the buffer with fill() when it  *)
(* is empty and then pops the last patch.  fill() draws                    *)
(* min(num_subjects, max_length // samples_per_volume) subjects through    *)
(* get_next_subject_sample(), which restarts the DataLoader pass when the  *)
(* current one is exhausted.                                               *)
(*                                                                         *)
(* Python exceptions are named after the spec's error taxonomy:            *)
(*   StopIteration  out of get_next_subject_sample -> "EmptySourceError"   *)
(*   AssertionError on ndim != 4                   -> "ShapeMismatchError" *)
(*   IndexError     of list.pop() on an empty list -> "StarvedPopError"    *)
(***************************************************************************)
EXTENDS Integers, Sequences, FiniteSets, TLC

\* ---------------------------------------------------------------- bounds
MaxSubjects == 2
MaxLength == 4
MaxSamplesPerVolume == 2
MaxCalls == 5
MaxOdd == 1
MaxPasses == 2
ScenarioCalls == 9
MaxEpochLength == 4
ThreadCalls == 4

VARIABLES
  \* the subjects dataset and the sampler class (collaborators)
  num_subjects,        \* len(self.subjects_dataset)
  image_ndim,          \* subject -> ndim of its sample['image'] in the dataset
  sampler_yield,       \* subject -> number of patches its sampler can yield
  \* Queue attributes
  max_length,
  samples_per_volume,
  shuffle_dataset,
  subjects_iterable,   \* subjects the current DataLoader pass has yet to yield
  patches_list,
  num_sampled_patches,
  \* history of the calls made so far
  calls,               \* number of __getitem__ calls made
  results,             \* result of every __getitem__ call, in order
  delivered,           \* patches returned to the caller, in order
  appended,            \* patches appended to patches_list, in order
  fill_log,            \* one record per fill() run
  draw_log,            \* one record per get_next_subject_sample call
  pass_orders,         \* order of every DataLoader pass constructed
  num_warnings,        \* number of warnings.warn calls
  \* callers that share the queue without a lock
  threads,             \* thread -> where it is inside __getitem__
  overlapped           \* whether a call began while another was running

vars == << num_subjects, image_ndim, sampler_yield, max_length,
           samples_per_volume, shuffle_dataset, subjects_iterable,
           patches_list, num_sampled_patches, calls, results, delivered,
           appended, fill_log, draw_log, pass_orders, num_warnings,
           threads, overlapped >>

config == << num_subjects, image_ndim, sampler_yield, max_length,
             samples_per_volume, shuffle_dataset >>

\* ---------------------------------------------------------------- helpers
Min(a, b) == IF a <= b THEN a ELSE b

Range(s) == {s[i] : i \in DOMAIN s}

NoDuplicates(s) == Cardinality(Range(s)) = Len(s)

RECURSIVE SumK(_)
SumK(draws) == IF draws = <<>> THEN 0 ELSE Head(draws).k + SumK(Tail(draws))

\* result of the last __getitem__ call
outcome == IF results = <<>> THEN "none" ELSE results[Len(results)]

\* ------------------------------------------------------ read-only properties
\* mutant: the declared length is the capacity of the queue
iterations_per_epoch_capacity == max_length

\* Queue.iterations_per_epoch / Queue.__len__
iterations_per_epoch == num_subjects * samples_per_volume

\* Queue.num_patches
num_patches == Len(patches_list)

\* ---------------------------------------------------------------- DataLoader
Perms(n) ==
  {f \in [1..n -> 1..n] : \A i, j \in 1..n : f[i] = f[j] => i = j}

\* orders in which a fresh iter(DataLoader(..., shuffle=...)) can yield the
\* subjects: every subject exactly once, shuffled if shuffle_dataset
get_subjects_iterable ==
  IF shuffle_dataset THEN Perms(num_subjects)
  ELSE {[i \in 1..num_subjects |-> i]}

\* the loader collates one sample into a batch of one: a leading batch axis
Batch(s) == [subject |-> s, ndim |-> image_ndim[s] + 1]

\* mutant: the batch axis is not stripped
squeeze_batch_keep(batch) == batch

\* squeeze_batch: value[0] for every key strips the leading axis
squeeze_batch(batch) == [batch EXCEPT !.ndim = @ - 1]

\* the assertion of get_next_subject_sample
ShapeOk(subject_sample) == subject_sample.ndim = 4

\* mutant: the pass is taken to be over while its last subject is still due
ExhaustedEarly(iter) == Len(iter) <= 1

\* next(self.subjects_iterable) raises StopIteration
Exhausted(iter) == iter = <<>>

\* ---------------------------------------------------------------- fill
\* The running state of one fill() is a record
\*   iter   : subjects_iterable        list   : patches_list
\*   orders : passes constructed       draws  : draws of this fill
\*   made   : patches appended         err    : "none" or the error raised
\*   sample : the subject sample returned by get_next_subject_sample

\* mutant: StopIteration is not caught, no new pass is constructed
get_next_no_restart(q) ==
  IF ~Exhausted(q.iter)
  THEN LET subject_sample == squeeze_batch(Batch(Head(q.iter))) IN
       {[q EXCEPT !.iter = Tail(@),
                  !.sample = subject_sample,
                  !.restarted = FALSE,
                  !.err = IF ShapeOk(subject_sample) THEN "none"
                          ELSE "ShapeMismatchError"]}
  ELSE {[q EXCEPT !.err = "EmptySourceError"]}

\* one get_next_subject_sample call: the set of its possible results
get_next_subject_sample(q) ==
  LET validated(q2, batch, restarted) ==
        LET subject_sample == squeeze_batch(batch) IN
        [q2 EXCEPT !.sample = subject_sample,
                   !.restarted = restarted,
                   !.err = IF ShapeOk(subject_sample) THEN "none"
                           ELSE "ShapeMismatchError"]
  IN IF ~Exhausted(q.iter)
     THEN {validated([q EXCEPT !.iter = Tail(@)], Batch(Head(q.iter)), FALSE)}
     ELSE {IF o = <<>>
           THEN [q EXCEPT !.orders = Append(@, o),
                          !.restarted = TRUE,
                          !.err = "EmptySourceError"]
           ELSE validated([q EXCEPT !.iter = Tail(o),
                                    !.orders = Append(@, o)],
                          Batch(Head(o)), TRUE)
           : o \in get_subjects_iterable}

\* mutant: a short sampler run is padded to the full batch
islice_pad(available, n) == n

\* mutant: the sampler is not truncated
islice_all(available, n) == available

\* islice(sampler, samples_per_volume): how many patches are taken
islice(available, n) == Min(available, n)

\* the patches one sampler run contributes
Samples(subject, pass, draw, n) ==
  [i \in 1..n |-> [subject |-> subject, pass |-> pass, draw |-> draw, idx |-> i]]

\* how many subjects the current pass has yielded
Position(iter) == num_subjects - Len(iter)

\* mutant: a failing draw empties the list, as if fill() were transactional
ExtendWithRollback(q, draw) ==
  IF q.err = "EmptySourceError"
  THEN [q EXCEPT !.draws = Append(@, [subject |-> 0, pass |-> Len(q.orders),
                                      pos |-> 0,
                                      restarted |-> q.restarted,
                                      err |-> q.err, k |-> 0])]
  ELSE IF q.err # "none"
  THEN [q EXCEPT !.list = <<>>,
                 !.made = <<>>,
                 !.draws = Append(@, [subject |-> q.sample.subject,
                                      pass |-> Len(q.orders),
                                      pos |-> Position(q.iter),
                                      restarted |-> q.restarted,
                                      err |-> q.err, k |-> 0])]
  ELSE LET s == q.sample.subject
           n == islice(sampler_yield[s], samples_per_volume)
           samples == Samples(s, Len(q.orders), draw, n)
       IN [q EXCEPT !.list = @ \o samples,
                    !.made = @ \o samples,
                    !.draws = Append(@, [subject |-> s, pass |-> Len(q.orders),
                                         pos |-> Position(q.iter),
                                         restarted |-> q.restarted,
                                         err |-> "none", k |-> Len(samples)])]

\* the body of the loop of fill() once the subject sample is drawn
ExtendWith(q, draw) ==
  IF q.err = "EmptySourceError"
  THEN [q EXCEPT !.draws = Append(@, [subject |-> 0, pass |-> Len(q.orders),
                                      pos |-> 0,
                                      restarted |-> q.restarted,
                                      err |-> q.err, k |-> 0])]
  ELSE IF q.err # "none"
  THEN [q EXCEPT !.draws = Append(@, [subject |-> q.sample.subject,
                                      pass |-> Len(q.orders),
                                      pos |-> Position(q.iter),
                                      restarted |-> q.restarted,
                                      err |-> q.err, k |-> 0])]
  ELSE LET s == q.sample.subject
           n == islice(sampler_yield[s], samples_per_volume)
           samples == Samples(s, Len(q.orders), draw, n)
       IN [q EXCEPT !.list = @ \o samples,
                    !.made = @ \o samples,
                    !.draws = Append(@, [subject |-> s, pass |-> Len(q.orders),
                                         pos |-> Position(q.iter),
                                         restarted |-> q.restarted,
                                         err |-> "none", k |-> Len(samples)])]

\* mutant: rounds up instead of down
max_num_subjects_ceil ==
  (max_length + samples_per_volume - 1) \div samples_per_volume

\* mutant: always loads at least one subject
max_num_subjects_at_least_one ==
  IF max_length \div samples_per_volume = 0 THEN 1
  ELSE max_length \div samples_per_volume

max_num_subjects_for_queue == max_length \div samples_per_volume

\* mutant: the number of subjects of the dataset does not cap the refill
num_subjects_uncapped == max_num_subjects_for_queue

num_subjects_for_queue == Min(num_subjects, max_num_subjects_for_queue)

RECURSIVE fill_loop(_, _)
fill_loop(q, n) ==
  IF n = 0 \/ q.err # "none" THEN {q}
  ELSE UNION {fill_loop(ExtendWith(q1, Len(draw_log) + Len(q.draws) + 1), n - 1)
              : q1 \in get_next_subject_sample(q)}

\* mutant: the test of the warning is inverted
WarnsDivisible == max_length % samples_per_volume = 0

\* the warning of fill()
WarnsNotDivisible == max_length % samples_per_volume # 0

fill(q) == fill_loop(q, num_subjects_for_queue)

\* ---------------------------------------------------------------- __getitem__
\* mutant: refills while one patch is still buffered
NeedsFillAtMostOne(list) == Len(list) <= 1

\* `if not self.patches_list`
NeedsFill(list) == list = <<>>

\* mutant: reads the last patch without removing it
PopRestKeep(list) == list

\* list.pop(): the list that is left and the element returned
PopRest(list) == SubSeq(list, 1, Len(list) - 1)

\* mutant: returns the oldest patch of the list
PopItemFirst(list) == list[1]

PopItem(list) == list[Len(list)]

\* mutant: the counter is incremented before the pop
CountBefore(n, popped) == n + 1

\* `self.num_sampled_patches += 1` comes after the pop, so it runs only when
\* the pop returned a patch
CountAfter(n, popped) == IF popped THEN n + 1 ELSE n

Start ==
  [iter |-> subjects_iterable, orders |-> pass_orders, list |-> patches_list,
   draws |-> <<>>, made |-> <<>>, err |-> "none", restarted |-> FALSE,
   sample |-> [subject |-> 0, ndim |-> 0]]

getitem(limit) ==
  /\ calls < limit
  /\ calls' = calls + 1
  /\ LET filled == NeedsFill(patches_list) IN
     \E q \in (IF filled THEN fill(Start) ELSE {Start}) :
       /\ subjects_iterable' = q.iter
       /\ pass_orders' = q.orders
       /\ appended' = appended \o q.made
       /\ draw_log' = draw_log \o q.draws
       /\ fill_log' = IF filled
                      THEN Append(fill_log,
                                  [call |-> calls + 1, draws |-> q.draws,
                                   size_before |-> Len(patches_list),
                                   undelivered_before |->
                                     Len(appended) - Len(delivered),
                                   size_after |-> Len(q.list),
                                   made |-> q.made, err |-> q.err])
                      ELSE fill_log
       /\ num_warnings' = IF filled /\ WarnsNotDivisible
                          THEN num_warnings + 1 ELSE num_warnings
       /\ IF q.err # "none"
          THEN /\ results' = Append(results, q.err)
               /\ patches_list' = q.list
               /\ num_sampled_patches' = CountAfter(num_sampled_patches, FALSE)
               /\ UNCHANGED delivered
          ELSE IF q.list = <<>>
          THEN /\ results' = Append(results, "StarvedPopError")
               /\ patches_list' = q.list
               /\ num_sampled_patches' = CountAfter(num_sampled_patches, FALSE)
               /\ UNCHANGED delivered
          ELSE /\ results' = Append(results, "ok")
               /\ patches_list' = PopRest(q.list)
               /\ delivered' = Append(delivered, PopItem(q.list))
               /\ num_sampled_patches' = CountAfter(num_sampled_patches, TRUE)
  /\ UNCHANGED << config, threads, overlapped >>

\* ---------------------------------------------------------------- datasets
\* A regular subject has a well-shaped image (4 axes) and a sampler that
\* yields more patches than are taken; an odd one has an image of 3 or 5
\* axes, or a sampler that yields no more than samples_per_volume patches.
Regular(spv) == [ndim |-> 4, yield |-> spv + 1]

Odd(spv) ==
  {[ndim |-> d, yield |-> spv + 1] : d \in {3, 5}}
    \cup {[ndim |-> 4, yield |-> y] : y \in 0..spv}

\* the datasets of n subjects with at most MaxOdd odd ones
Datasets(n, spv) ==
  {f \in [1..n -> Odd(spv) \cup {Regular(spv)}] :
     Cardinality({s \in 1..n : f[s] # Regular(spv)}) <= MaxOdd}

\* the callers of the threaded specification
Threads == {"t1", "t2"}

\* a thread that is not inside __getitem__
Idle ==
  [pc |-> "idle", left |-> 0, call |-> 0, draws |-> <<>>, made |-> <<>>,
   size_before |-> 0, undelivered_before |-> 0, loaded |-> 0]

\* Queue.__init__
InitQueue ==
  /\ threads = [t \in Threads |-> Idle]
  /\ overlapped = FALSE
  /\ subjects_iterable \in get_subjects_iterable
  /\ pass_orders = << subjects_iterable >>
  /\ patches_list = <<>>
  /\ num_sampled_patches = 0
  /\ calls = 0
  /\ results = <<>>
  /\ delivered = <<>>
  /\ appended = <<>>
  /\ fill_log = <<>>
  /\ draw_log = <<>>
  /\ num_warnings = 0

Init ==
  /\ num_subjects \in 0..MaxSubjects
  /\ max_length \in 0..MaxLength
  /\ samples_per_volume \in 1..MaxSamplesPerVolume
  /\ shuffle_dataset \in BOOLEAN
  /\ \E d \in Datasets(num_subjects, samples_per_volume) :
       /\ image_ndim = [s \in 1..num_subjects |-> d[s].ndim]
       /\ sampler_yield = [s \in 1..num_subjects |-> d[s].yield]
  /\ InitQueue

\* the driver stops calling after MaxCalls calls, or once more than MaxPasses
\* passes have been constructed
Next ==
  /\ Len(pass_orders) <= MaxPasses
  /\ getitem(MaxCalls)

Spec == Init /\ [][Next]_vars

\* the end-to-end scenario: 4 subjects, 2 samples per volume, max_length 4,
\* well-shaped images and samplers that yield full batches
InitScenario ==
  /\ num_subjects = 4
  /\ max_length = 4
  /\ samples_per_volume = 2
  /\ shuffle_dataset \in BOOLEAN
  /\ image_ndim = [s \in 1..4 |-> 4]
  /\ sampler_yield = [s \in 1..4 |-> 3]
  /\ InitQueue

NextScenario == getitem(ScenarioCalls)

SpecScenario == InitScenario /\ [][NextScenario]_vars

\* three epochs: a driver that calls __getitem__ len(queue) * 3 times on a
\* queue over a non-empty dataset of well-shaped subjects whose samplers
\* yield at least one patch, with max_length >= samples_per_volume
WellFormed ==
  /\ \A s \in 1..num_subjects : image_ndim[s] = 4
  /\ \A s \in 1..num_subjects : sampler_yield[s] >= 1

InitEpochs ==
  /\ Init
  /\ num_subjects > 0
  /\ max_length >= samples_per_volume
  /\ WellFormed
  /\ iterations_per_epoch <= MaxEpochLength

NextEpochs == getitem(3 * iterations_per_epoch)

SpecEpochs == InitEpochs /\ [][NextEpochs]_vars

\* ---------------------------------------------------------------- threads
\* Two threads call __getitem__ on one queue. The method takes no lock, so the
\* threads interleave between its statements: the test of line 36, every
\* iteration of the loop of fill(), the pop of line 43, and the load and the
\* store of the `+=` of line 44, which is not atomic.

\* the record fill_log keeps of thread th's fill()
ThreadFill(th, draws, made, list, err) ==
  [call |-> th.call, draws |-> draws, size_before |-> th.size_before,
   undelivered_before |-> th.undelivered_before,
   size_after |-> Len(list), made |-> made, err |-> err]

\* thread t enters __getitem__ and tests `if not self.patches_list`; an empty
\* list sends it into fill(), which warns and computes the number of subjects
t_check(t) ==
  /\ threads[t].pc = "idle"
  /\ calls < ThreadCalls
  /\ calls' = calls + 1
  /\ overlapped' = (overlapped \/ \E u \in Threads \ {t} : threads[u].pc # "idle")
  /\ LET filled == NeedsFill(patches_list)
         th == [Idle EXCEPT !.call = calls + 1,
                            !.left = num_subjects_for_queue,
                            !.size_before = Len(patches_list),
                            !.undelivered_before = Len(appended) - Len(delivered)]
     IN /\ num_warnings' = IF filled /\ WarnsNotDivisible
                           THEN num_warnings + 1 ELSE num_warnings
        /\ IF filled /\ num_subjects_for_queue > 0
           THEN /\ threads' = [threads EXCEPT ![t] = [th EXCEPT !.pc = "fill"]]
                /\ UNCHANGED fill_log
           ELSE /\ threads' = [threads EXCEPT ![t] = [Idle EXCEPT !.pc = "pop"]]
                /\ fill_log' = IF filled
                               THEN Append(fill_log,
                                           ThreadFill(th, <<>>, <<>>,
                                                      patches_list, "none"))
                               ELSE fill_log
  /\ UNCHANGED << config, subjects_iterable, patches_list, num_sampled_patches,
                  results, delivered, appended, draw_log, pass_orders >>

\* thread t runs one iteration of the loop of fill()
t_fill(t) ==
  /\ threads[t].pc = "fill"
  /\ LET th == threads[t]
         q0 == [Start EXCEPT !.draws = th.draws, !.made = th.made]
     IN \E q1 \in get_next_subject_sample(q0) :
          LET q == ExtendWith(q1, Len(draw_log) + 1)
              failed == q.err # "none"
              done == failed \/ th.left = 1
          IN /\ subjects_iterable' = q.iter
             /\ pass_orders' = q.orders
             /\ patches_list' = q.list
             /\ draw_log' = Append(draw_log, q.draws[Len(q.draws)])
             /\ appended' = appended
                             \o SubSeq(q.made, Len(th.made) + 1, Len(q.made))
             /\ fill_log' = IF done
                            THEN Append(fill_log,
                                        ThreadFill(th, q.draws, q.made,
                                                   q.list, q.err))
                            ELSE fill_log
             /\ results' = IF failed THEN Append(results, q.err) ELSE results
             /\ threads' =
                  [threads EXCEPT ![t] =
                     IF failed THEN Idle
                     ELSE IF done THEN [Idle EXCEPT !.pc = "pop"]
                     ELSE [th EXCEPT !.left = @ - 1,
                                     !.draws = q.draws,
                                     !.made = q.made]]
  /\ UNCHANGED << config, num_sampled_patches, calls, delivered, num_warnings,
                  overlapped >>

\* thread t runs `self.patches_list.pop()` and, if it returned a patch, loads
\* the counter for the `+=`
t_pop(t) ==
  /\ threads[t].pc = "pop"
  /\ IF patches_list = <<>>
     THEN /\ results' = Append(results, "StarvedPopError")
          /\ threads' = [threads EXCEPT ![t] = Idle]
          /\ UNCHANGED << patches_list, delivered >>
     ELSE /\ patches_list' = PopRest(patches_list)
          /\ delivered' = Append(delivered, PopItem(patches_list))
          /\ threads' = [threads EXCEPT ![t] =
                           [Idle EXCEPT !.pc = "count",
                                        !.loaded = num_sampled_patches]]
          /\ UNCHANGED results
  /\ UNCHANGED << config, subjects_iterable, num_sampled_patches, calls,
                  appended, fill_log, draw_log, pass_orders, num_warnings,
                  overlapped >>

\* thread t stores the incremented counter and returns the patch
t_count(t) ==
  /\ threads[t].pc = "count"
  /\ num_sampled_patches' = CountAfter(threads[t].loaded, TRUE)
  /\ results' = Append(results, "ok")
  /\ threads' = [threads EXCEPT ![t] = Idle]
  /\ UNCHANGED << config, subjects_iterable, patches_list, calls, delivered,
                  appended, fill_log, draw_log, pass_orders, num_warnings,
                  overlapped >>

\* a non-empty dataset of well-shaped images read in order, samplers that
\* yield full batches and a queue that holds at least one batch: every failure
\* is then due to the interleaving
InitThreads ==
  /\ Init
  /\ num_subjects > 0
  /\ max_length >= samples_per_volume
  /\ ~shuffle_dataset
  /\ \A s \in 1..num_subjects :
       image_ndim[s] = 4 /\ sampler_yield[s] > samples_per_volume

NextThreads ==
  \E t \in Threads : t_check(t) \/ t_fill(t) \/ t_pop(t) \/ t_count(t)

SpecThreads == InitThreads /\ [][NextThreads]_vars

\* ---------------------------------------------------------------- claims
Target == Min(num_subjects, max_length \div samples_per_volume)

LastFill == fill_log[Len(fill_log)]

\* C1: after every refill that ran to completion (it always starts on an
\* empty buffer) the buffer holds the sum of the batch sizes k' (each in
\* 0..samples_per_volume) of the min(num_subjects, max_length //
\* samples_per_volume) subjects drawn, which is at most max_length; the
\* number of buffered patches is in 0..max_length in every reachable state.
C1_RefillSizing ==
  /\ num_patches \in 0..max_length
  /\ \A i \in DOMAIN fill_log :
       LET f == fill_log[i] IN
       /\ f.size_before = 0
       /\ f.size_after <= max_length
       /\ f.err = "none" =>
            /\ Len(f.draws) = Target
            /\ \A j \in DOMAIN f.draws :
                 f.draws[j].k \in 0..samples_per_volume
            /\ f.size_after = SumK(f.draws)

C1_Witness ==
  /\ fill_log # <<>>
  /\ LastFill.err = "none"
  /\ Len(LastFill.draws) >= 2
  /\ \E j \in DOMAIN LastFill.draws :
       LastFill.draws[j].k \in 1..(samples_per_volume - 1)
  /\ LastFill.size_after \in 1..(max_length - 1)
  /\ outcome = "ok"

\* C2: a __getitem__ call runs fill() if and only if patches_list is empty
\* when the call starts; a call on a non-empty list draws no subject and
\* removes exactly one patch; a fill() that runs to completion calls
\* get_next_subject_sample exactly min(num_subjects, max_length //
\* samples_per_volume) times, and one cut short by an error made fewer or
\* as many calls, the last of which raised.
C2_RefillIffEmpty ==
  [][calls' = calls + 1 =>
       /\ (Len(fill_log') = Len(fill_log) + 1) <=> (patches_list = <<>>)
       /\ (Len(fill_log') = Len(fill_log)) <=> (patches_list # <<>>)
       /\ patches_list # <<>> =>
            /\ subjects_iterable' = subjects_iterable
            /\ pass_orders' = pass_orders
            /\ appended' = appended
            /\ Len(patches_list') = Len(patches_list) - 1
            /\ outcome' = "ok"
       /\ patches_list = <<>> =>
            LET f == fill_log'[Len(fill_log')] IN
            /\ f.call = calls'
            /\ f.err = "none" => Len(f.draws) = Target
            /\ f.err # "none" =>
                 /\ Len(f.draws) \in 1..Target
                 /\ f.draws[Len(f.draws)].err = f.err
            /\ \A j \in 1..(Len(f.draws) - 1) : f.draws[j].err = "none"
    ]_vars

C2_Witness ==
  /\ Len(fill_log) >= 2
  /\ \A i \in DOMAIN fill_log : Len(fill_log[i].draws) >= 2
  /\ calls > Len(fill_log) + 1
  /\ num_sampled_patches = calls

\* C3: with at least one subject, max_length >= samples_per_volume, samplers
\* that yield at least one patch and well-shaped images, every one of
\* len(queue) * 3 sequential __getitem__ calls returns a patch: the end of a
\* pass is absorbed by a restart and no call fails, with the exhausted-source
\* error or otherwise.
C3_NoStarvation ==
  /\ calls <= 3 * iterations_per_epoch
  /\ outcome \in {"none", "ok"}
  /\ \A i \in DOMAIN results : results[i] = "ok"
  /\ Len(results) = calls
  /\ Len(delivered) = calls

C3_Witness ==
  /\ num_subjects >= 2
  /\ samples_per_volume >= 2
  /\ calls = iterations_per_epoch * 3
  /\ Len(pass_orders) >= 3
  /\ \E i \in DOMAIN fill_log : \E j \in DOMAIN fill_log[i].draws :
       fill_log[i].draws[j].restarted
  /\ outcome = "ok"

\* C4: every patch appended by a fill() is returned exactly once: no patch
\* is returned twice, every appended patch is either returned or still
\* buffered, and a fill() starts only when all the patches appended before
\* have been returned (it never appends to left-over patches).
C4_ExactlyOnce ==
  /\ NoDuplicates(appended)
  /\ NoDuplicates(delivered)
  /\ NoDuplicates(patches_list)
  /\ Range(delivered) \cap Range(patches_list) = {}
  /\ Range(delivered) \cup Range(patches_list) = Range(appended)
  /\ Len(delivered) + Len(patches_list) = Len(appended)
  /\ \A i \in DOMAIN fill_log :
       /\ fill_log[i].size_before = 0
       /\ fill_log[i].undelivered_before = 0

C4_Witness ==
  /\ Len(fill_log) >= 2
  /\ Len(delivered) >= 3
  /\ patches_list # <<>>
  /\ \E i \in DOMAIN fill_log : Len(fill_log[i].draws) >= 2

\* C5: num_sampled_patches starts at 0 and at every state equals the number
\* of __getitem__ calls that returned a patch, which is the number of
\* patches returned: it grows by exactly 1 in every successful call, with or
\* without a refill or a warning, and a failed call leaves it unchanged.
C5_SampledCount ==
  /\ calls = 0 => num_sampled_patches = 0
  /\ Len(results) = calls
  /\ num_sampled_patches = Cardinality({i \in DOMAIN results : results[i] = "ok"})
  /\ num_sampled_patches = Len(delivered)

C5_Witness ==
  /\ num_sampled_patches >= 2
  /\ num_sampled_patches < calls
  /\ num_warnings >= 1
  /\ outcome = "ok"
  /\ Len(fill_log) >= 2
  /\ results[1] # "ok"

\* C6: on a non-empty dataset get_next_subject_sample never lets the end of
\* a pass reach its caller; a new pass is constructed only when the current
\* one has yielded all num_subjects subjects, at most once per call, and the
\* call returns the first subject of the new pass; so every pass that was
\* followed by a restart had every subject drawn exactly once.
C6_PassRestart ==
  num_subjects > 0 =>
    LET dl == draw_log
        last == Len(pass_orders)
    IN
    /\ \A i \in DOMAIN results : results[i] # "EmptySourceError"
    /\ \A i \in DOMAIN dl :
         LET d == dl[i]
             prev == IF i = 1 THEN [pass |-> 1, pos |-> 0] ELSE dl[i - 1]
         IN
         /\ d.err # "EmptySourceError"
         /\ d.pos \in 1..num_subjects
         /\ d.subject = pass_orders[d.pass][d.pos]
         /\ IF d.restarted
            THEN /\ prev.pos = num_subjects
                 /\ d.pass = prev.pass + 1
                 /\ d.pos = 1
                 /\ i > num_subjects
                 /\ {dl[j].subject : j \in (i - num_subjects)..(i - 1)}
                      = 1..num_subjects
                 /\ \A j \in (i - num_subjects)..(i - 1) :
                      /\ dl[j].pass = prev.pass
                      /\ dl[j].restarted <=> (j = i - num_subjects /\ j > 1)
            ELSE /\ d.pass = prev.pass
                 /\ d.pos = prev.pos + 1
    /\ last = (IF dl = <<>> THEN 1 ELSE dl[Len(dl)].pass)
    /\ subjects_iterable =
         SubSeq(pass_orders[last],
                (IF dl = <<>> THEN 0 ELSE dl[Len(dl)].pos) + 1, num_subjects)

C6_Witness ==
  /\ num_subjects >= 2
  /\ Len(pass_orders) >= 3
  /\ pass_orders[1] # pass_orders[2]
  /\ \E i \in DOMAIN fill_log :
       /\ Len(fill_log[i].draws) >= 2
       /\ fill_log[i].draws[2].restarted

FillSubjects(f) == {f.draws[j].subject : j \in DOMAIN f.draws}

\* C7: with 4 subjects, samples_per_volume = 2, max_length = 4 and full
\* batches, len(queue) is 8; the first call runs the only fill() of the
\* first 4 calls, which draws 2 subjects and leaves 4 patches; after 4 calls
\* the list is empty; the 5th call runs the second fill(), which draws the 2
\* subjects of the same pass that the first did not draw; the pass is not
\* restarted before the 9th call, which restarts it.
C7_Scenario ==
  /\ iterations_per_epoch = 8
  /\ \A i \in DOMAIN results : results[i] = "ok"
  /\ calls >= 1 =>
       /\ fill_log[1].call = 1
       /\ fill_log[1].err = "none"
       /\ Len(fill_log[1].draws) = 2
       /\ Cardinality(FillSubjects(fill_log[1])) = 2
       /\ fill_log[1].size_after = 4
  /\ calls \in 1..4 => (Len(fill_log) = 1 /\ num_patches = 4 - calls)
  /\ calls = 4 => patches_list = <<>>
  /\ calls >= 5 =>
       /\ fill_log[2].call = 5
       /\ Len(fill_log[2].draws) = 2
       /\ fill_log[2].size_after = 4
       /\ FillSubjects(fill_log[2]) = (1..4) \ FillSubjects(fill_log[1])
       /\ \A i \in 1..2 : \A j \in 1..2 :
            /\ fill_log[i].draws[j].pass = 1
            /\ ~fill_log[i].draws[j].restarted
  /\ calls \in 5..8 => (Len(fill_log) = 2 /\ num_patches = 8 - calls)
  /\ calls <= 8 => Len(pass_orders) = 1
  /\ calls >= 9 =>
       /\ fill_log[3].call = 9
       /\ fill_log[3].draws[1].restarted
       /\ Len(pass_orders) = 2

C7_Witness ==
  /\ num_subjects = 4 /\ samples_per_volume = 2 /\ max_length = 4
  /\ shuffle_dataset
  /\ calls = 9
  /\ Len(fill_log) = 3
  /\ pass_orders[2] # pass_orders[1]

\* C8 as claimed: a __getitem__ call that fails with the shape error leaves
\* patches_list exactly as it was before the call, wherever the misshapen
\* subject comes among the subjects its fill() draws.
C8_Original ==
  [][(calls' = calls + 1 /\ outcome' = "ShapeMismatchError")
       => patches_list' = patches_list]_vars

\* C8 amended: a fill() that draws a subject whose image has 3 or 5 axes
\* once the batch axis is stripped fails with the shape error at that
\* subject; patches_list then holds exactly the patches of the subjects the
\* fill() drew before it and none of the misshapen one, so it is as before
\* the call only when the misshapen subject is the first one drawn.
C8_ShapeRejection ==
  /\ \A i \in DOMAIN fill_log :
       LET f == fill_log[i] IN
       \A j \in DOMAIN f.draws :
         LET d == f.draws[j] IN
         (d.subject \in 1..num_subjects /\ image_ndim[d.subject] \in {3, 5}) =>
           /\ d.err = "ShapeMismatchError"
           /\ f.err = "ShapeMismatchError"
           /\ results[f.call] = "ShapeMismatchError"
           /\ j = Len(f.draws)
           /\ d.k = 0
           /\ f.size_before = 0
           /\ f.size_after = SumK(SubSeq(f.draws, 1, j - 1))
           /\ j = 1 => f.size_after = f.size_before
  /\ \A i \in DOMAIN results :
       results[i] = "ShapeMismatchError" =>
         \E n \in DOMAIN fill_log :
           /\ fill_log[n].call = i
           /\ image_ndim[fill_log[n].draws[Len(fill_log[n].draws)].subject]
                \in {3, 5}
  /\ outcome = "ShapeMismatchError" =>
       /\ num_patches = LastFill.size_after
       /\ \A n \in DOMAIN patches_list :
            /\ image_ndim[patches_list[n].subject] = 4
            /\ \E j \in 1..(Len(LastFill.draws) - 1) :
                 LastFill.draws[j].subject = patches_list[n].subject

C8_Witness ==
  /\ outcome = "ShapeMismatchError"
  /\ Len(LastFill.draws) >= 2
  /\ patches_list # <<>>
  /\ \E s \in 1..num_subjects : image_ndim[s] = 5

\* C9 as claimed: with a dataset of zero subjects a __getitem__ call fails
\* with the exhausted-source error of get_next_subject_sample, leaving
\* patches_list empty and num_sampled_patches unchanged.
C9_Original ==
  (num_subjects = 0 /\ calls > 0) =>
    /\ outcome = "EmptySourceError"
    /\ patches_list = <<>>
    /\ num_sampled_patches = 0

\* C9 amended: with a dataset of zero subjects fill() draws min(0, ...) = 0
\* subjects and never calls get_next_subject_sample, so every __getitem__
\* call fails with the error of a pop from the empty list (the starved-pop
\* error), leaving patches_list empty and num_sampled_patches unchanged.
C9_EmptyDataset ==
  (num_subjects = 0 /\ calls > 0) =>
    /\ \A i \in DOMAIN results : results[i] = "StarvedPopError"
    /\ patches_list = <<>>
    /\ num_sampled_patches = 0
    /\ draw_log = <<>>
    /\ Len(fill_log) = calls
    /\ pass_orders = << <<>> >>

C9_Witness ==
  /\ num_subjects = 0
  /\ max_length >= 2 * samples_per_volume
  /\ calls >= 2
  /\ outcome = "StarvedPopError"

\* C10: when max_length < samples_per_volume every __getitem__ call ends
\* with the starved-pop error: its fill() draws no subject and leaves the
\* pass where it was, patches_list stays empty and num_sampled_patches
\* stays 0, call after call.
C10_StarvedPop ==
  max_length < samples_per_volume =>
    /\ \A i \in DOMAIN results : results[i] = "StarvedPopError"
    /\ Len(results) = calls
    /\ Len(fill_log) = calls
    /\ \A i \in DOMAIN fill_log : fill_log[i].draws = <<>>
    /\ patches_list = <<>>
    /\ appended = <<>>
    /\ num_sampled_patches = 0
    /\ Len(pass_orders) = 1
    /\ subjects_iterable = pass_orders[1]
    /\ Len(subjects_iterable) = num_subjects

C10_Witness ==
  /\ max_length < samples_per_volume
  /\ max_length > 0
  /\ num_subjects >= 2
  /\ calls >= 3
  /\ outcome = "StarvedPopError"
  /\ num_warnings = calls

\* C11 as claimed: a queue whose max_length is not a multiple of
\* samples_per_volume has emitted the warning once it is constructed.
C11_Original ==
  max_length % samples_per_volume # 0 => num_warnings >= 1

\* C11 amended: the warning is not emitted by the constructor but by fill():
\* once per fill() run when max_length is not a multiple of
\* samples_per_volume, never when it is; the calls go on to succeed when
\* max_length >= samples_per_volume and the dataset is non-empty and well
\* formed.
C11_WarningInFill ==
  /\ calls = 0 => num_warnings = 0
  /\ num_warnings =
       (IF max_length % samples_per_volume # 0 THEN Len(fill_log) ELSE 0)
  /\ (/\ max_length % samples_per_volume # 0
      /\ max_length >= samples_per_volume
      /\ num_subjects > 0
      /\ WellFormed) =>
       /\ \A i \in DOMAIN results : results[i] = "ok"
       /\ num_sampled_patches = calls
       /\ num_patches <= max_length - (max_length % samples_per_volume)

C11_Witness ==
  /\ max_length % samples_per_volume # 0
  /\ max_length >= samples_per_volume
  /\ samples_per_volume >= 2
  /\ num_warnings >= 2
  /\ calls > num_warnings
  /\ outcome = "ok"

\* C12: len(queue) is num_subjects * samples_per_volume in every state; a
\* __getitem__ call, with its refill and pass restarts, changes neither
\* max_length, samples_per_volume, shuffle_dataset, the dataset nor
\* len(queue); and the calls made after len(queue) of them succeed like the
\* ones before (on a non-empty, well-formed dataset with max_length >=
\* samples_per_volume).
C12_EpochLength ==
  [][/\ iterations_per_epoch = num_subjects * samples_per_volume
     /\ iterations_per_epoch' = iterations_per_epoch
     /\ max_length' = max_length
     /\ samples_per_volume' = samples_per_volume
     /\ shuffle_dataset' = shuffle_dataset
     /\ num_subjects' = num_subjects
     /\ image_ndim' = image_ndim
     /\ sampler_yield' = sampler_yield
     /\ (/\ calls' = calls + 1
         /\ calls >= iterations_per_epoch
         /\ num_subjects > 0
         /\ max_length >= samples_per_volume
         /\ WellFormed) => outcome' = "ok"
    ]_vars

C12_Witness ==
  /\ num_subjects >= 2
  /\ WellFormed
  /\ calls > iterations_per_epoch
  /\ Len(fill_log) >= 2
  /\ Len(pass_orders) >= 2
  /\ outcome = "ok"

\* how many of the first j calls returned a patch
OkCount(j) == Cardinality({i \in 1..j : results[i] = "ok"})

\* whether call j ran fill()
FillAt(j) == \E n \in DOMAIN fill_log : fill_log[n].call = j

\* C14: a fill() that fails part-way leaves in patches_list exactly the
\* patches of the subjects it expanded before the failure and none of the
\* failing one, the failing call does not count as sampled, and the next
\* calls return those patches one by one without running fill(); fill() runs
\* again only at the call that finds the list empty.
C14_PartialRefill ==
  /\ num_sampled_patches = OkCount(calls)
  /\ \A n \in DOMAIN fill_log :
       LET f == fill_log[n] IN
       f.err # "none" =>
         /\ results[f.call] = f.err
         /\ f.size_before = 0
         /\ f.size_after = SumK(f.draws)
         /\ Len(f.made) = f.size_after
         /\ \A i \in DOMAIN f.draws :
              (f.draws[i].err # "none") = (i = Len(f.draws))
         /\ \A i \in DOMAIN f.made :
              /\ draw_log[f.made[i].draw].err = "none"
              /\ \E d \in 1..(Len(f.draws) - 1) :
                   /\ f.draws[d].subject = f.made[i].subject
                   /\ f.draws[d].pass = f.made[i].pass
         /\ \A j \in 1..f.size_after :
              f.call + j <= calls =>
                /\ results[f.call + j] = "ok"
                /\ ~FillAt(f.call + j)
                /\ delivered[OkCount(f.call + j)] = f.made[Len(f.made) - j + 1]
         /\ f.call + f.size_after + 1 <= calls => FillAt(f.call + f.size_after + 1)
         /\ f.call + f.size_after = calls => num_patches = 0
         /\ f.call = calls => patches_list = f.made

C14_Witness ==
  \E n \in DOMAIN fill_log :
    /\ fill_log[n].err = "ShapeMismatchError"
    /\ fill_log[n].size_after >= 1
    /\ calls >= fill_log[n].call + fill_log[n].size_after + 1

\* the positions of seq that hold patches of one draw (a subject in a pass)
PatchesOf(seq, d) ==
  {i \in DOMAIN seq : seq[i].subject = d.subject /\ seq[i].pass = d.pass}

\* C15: every iteration of the loop of fill() draws one subject and appends
\* exactly min(samples_per_volume, patches the sampler yields) patches, all of
\* that subject: a short run is appended as it is, without padding or error,
\* what the sampler yields beyond samples_per_volume is dropped, and all the
\* patches of one drawn subject are appended by the fill() that drew it.
C15_ExpandOne ==
  /\ Len(appended) = SumK(draw_log)
  /\ \A i \in DOMAIN appended :
       /\ appended[i].draw \in DOMAIN draw_log
       /\ draw_log[appended[i].draw].subject = appended[i].subject
       /\ draw_log[appended[i].draw].pass = appended[i].pass
       /\ draw_log[appended[i].draw].err = "none"
  /\ \A n \in DOMAIN fill_log :
       LET f == fill_log[n] IN
       /\ Len(f.made) = SumK(f.draws)
       /\ \A j \in DOMAIN f.draws :
            LET d == f.draws[j]
                own == PatchesOf(f.made, d)
            IN d.err = "none" =>
                 /\ d.k = Min(samples_per_volume, sampler_yield[d.subject])
                 /\ Cardinality(own) = d.k
                 /\ Cardinality(PatchesOf(appended, d)) = d.k
                 /\ \A a, b \in own :
                      /\ f.made[a].draw = f.made[b].draw
                      /\ f.made[b].idx - f.made[a].idx = b - a
                 /\ {f.made[a].idx : a \in own} = 1..d.k
       /\ f.err # "none" => f.draws[Len(f.draws)].err = f.err

C15_Witness ==
  /\ samples_per_volume >= 2
  /\ outcome = "ok"
  /\ \A i \in DOMAIN results : results[i] = "ok"
  /\ \E n \in DOMAIN fill_log :
       \E a, b \in DOMAIN fill_log[n].draws :
         /\ fill_log[n].draws[a].k \in 1..(samples_per_volume - 1)
         /\ fill_log[n].draws[b].k = samples_per_volume
         /\ sampler_yield[fill_log[n].draws[b].subject] > samples_per_volume

\* every sampler yields at least samples_per_volume patches
FullBatches == \A s \in 1..num_subjects : sampler_yield[s] >= samples_per_volume

\* the calls of epoch e
Epoch(e) == ((e - 1) * iterations_per_epoch + 1)..(e * iterations_per_epoch)

\* C16: when the number of subjects a fill() draws divides the number of
\* subjects and every sampler yields a full batch, every block of len(queue)
\* consecutive calls counted from the construction returns exactly
\* samples_per_volume patches of every subject, all drawn in the pass of that
\* number, and the list is empty at the end of every such block.
C16_Epochs ==
  (/\ Target >= 1
   /\ num_subjects % Target = 0
   /\ FullBatches) =>
    \A e \in 1..3 :
      /\ calls >= e * iterations_per_epoch =>
           /\ \A s \in 1..num_subjects :
                Cardinality({i \in Epoch(e) : delivered[i].subject = s})
                  = samples_per_volume
           /\ \A i \in Epoch(e) : delivered[i].pass = e
      /\ calls = e * iterations_per_epoch =>
           /\ patches_list = <<>>
           /\ subjects_iterable = <<>>
           /\ Len(pass_orders) = e

C16_Witness ==
  /\ num_subjects >= 2
  /\ samples_per_volume >= 2
  /\ Target = 1
  /\ FullBatches
  /\ shuffle_dataset
  /\ calls = 3 * iterations_per_epoch
  /\ patches_list = <<>>
  /\ pass_orders[1] # pass_orders[2]

\* C17: one fill() restarts the pass over the dataset at most once, since it
\* draws at most num_subjects subjects: its draws come from at most two
\* consecutive passes, those before the restart from the old pass and the
\* restarting draw and those after it from the new one.
C17_OneRestart ==
  \A n \in DOMAIN fill_log :
    LET draws == fill_log[n].draws IN
    /\ Len(draws) <= num_subjects
    /\ Cardinality({j \in DOMAIN draws : draws[j].restarted}) <= 1
    /\ \A j \in DOMAIN draws :
         /\ draws[j].pass - draws[1].pass \in {0, 1}
         /\ j > 1 => draws[j].pass =
                       draws[j - 1].pass + (IF draws[j].restarted THEN 1 ELSE 0)
         /\ draws[j].restarted =>
              /\ draws[j].pos = 1
              /\ \A k \in DOMAIN draws : k > j => draws[k].pos = 1 + (k - j)
    /\ \A i \in DOMAIN fill_log[n].made :
         fill_log[n].made[i].pass - draws[1].pass \in {0, 1}

\* a completed fill() that buffered patches of one subject from two passes
C17_Witness ==
  /\ outcome = "ok"
  /\ LastFill.err = "none"
  /\ LastFill.call = calls
  /\ \E a, b \in DOMAIN LastFill.made :
       /\ LastFill.made[a].subject = LastFill.made[b].subject
       /\ LastFill.made[a].pass + 1 = LastFill.made[b].pass
  /\ \E a, b \in DOMAIN patches_list :
       /\ patches_list[a].subject = patches_list[b].subject
       /\ patches_list[a].pass # patches_list[b].pass

Reverse(seq) == [i \in 1..Len(seq) |-> seq[Len(seq) + 1 - i]]

\* the patches of the first n fills, each fill in the reverse of its append
\* order
RECURSIVE ReversedFills(_)
ReversedFills(n) ==
  IF n = 0 THEN <<>> ELSE ReversedFills(n - 1) \o Reverse(fill_log[n].made)

\* C18: __getitem__ returns the patch appended last among those still in the
\* list: the patches of one fill() are returned in the exact reverse of the
\* order in which it appended them, so the patches of one subject come out
\* next to each other and those of the subject drawn last come out first.
C18_Lifo ==
  /\ delivered \o Reverse(patches_list) = ReversedFills(Len(fill_log))
  /\ \A i \in DOMAIN delivered :
       \A j \in DOMAIN delivered :
         (i < j /\ delivered[i].draw = delivered[j].draw) =>
           /\ delivered[i].idx > delivered[j].idx
           /\ \A m \in i..j : delivered[m].draw = delivered[i].draw
  /\ outcome = "ok" =>
       \A j \in DOMAIN patches_list :
         \/ patches_list[j].draw < delivered[Len(delivered)].draw
         \/ /\ patches_list[j].draw = delivered[Len(delivered)].draw
            /\ patches_list[j].idx < delivered[Len(delivered)].idx

C18_Witness ==
  /\ samples_per_volume >= 2
  /\ Len(fill_log) >= 2
  /\ LastFill.err = "none"
  /\ Len(LastFill.draws) >= 2
  /\ Len(LastFill.made) >= 4
  /\ patches_list = <<>>
  /\ outcome = "ok"

\* C13 as claimed: two threads calling __getitem__ never both find the list
\* empty and both run fill(), the list never holds more than max_length
\* patches, and no pop fails on a list another thread emptied.
C13_Original ==
  /\ Cardinality({t \in Threads : threads[t].pc = "fill"}) <= 1
  /\ num_patches <= max_length
  /\ \A i \in DOMAIN results : results[i] # "StarvedPopError"

\* C13 amended: __getitem__ takes no lock, so its test, fill() and pop form a
\* critical section only when the callers serialise their calls: as long as no
\* call began while another was running, at most one thread is inside the
\* method, every fill() starts on an empty list and leaves at most max_length
\* patches, and every call returns a patch. When calls overlap the only
\* guarantee left is that each of the two threads has at most one fill() in
\* flight, each started on a list it saw empty, so the list holds at most
\* twice the patches of one fill(), and that the counter, whose increment can
\* be lost, is at most the number of patches returned.
C13_CallerSerialised ==
  /\ ~overlapped =>
       /\ Cardinality({t \in Threads : threads[t].pc # "idle"}) <= 1
       /\ num_patches <= max_length
       /\ \A i \in DOMAIN results : results[i] = "ok"
       /\ num_sampled_patches = Len(results)
       /\ \A n \in DOMAIN fill_log :
            /\ fill_log[n].size_before = 0
            /\ fill_log[n].undelivered_before = 0
            /\ fill_log[n].err = "none"
            /\ fill_log[n].size_after = Target * samples_per_volume
  /\ num_patches <= 2 * Target * samples_per_volume
  /\ num_sampled_patches <= OkCount(Len(results))
  /\ \A n \in DOMAIN fill_log : fill_log[n].size_before = 0
  /\ \A t \in Threads : threads[t].pc = "fill" => threads[t].size_before = 0

\* both races in one run: a double refill that left more than max_length
\* patches, and a pop that failed
C13_Witness ==
  /\ overlapped
  /\ \E n \in DOMAIN fill_log : fill_log[n].size_after > max_length
  /\ \E i \in DOMAIN results : results[i] = "StarvedPopError"
  /\ \E i \in DOMAIN results : results[i] = "ok"

\* calls made one after the other through the same steps
C13_SerialWitness ==
  /\ ~overlapped
  /\ calls = ThreadCalls
  /\ Len(results) = ThreadCalls
  /\ Len(fill_log) >= 2

====
